---- MODULE Spec2Model ----
(***************************************************************************)
(* Model of the OmniVen mobile-user account service: registration, login,   *)
(* token resolution and owner-or-admin gated profile CRUD.                   *)
(*                                                                           *)
(* A row of mobile_users is a record with the columns the handlers branch    *)
(* on or return: user_id, email, username, phone_number, password (the       *)
(* bcrypt digest) and status.  date_login is kept beside the rows, per      *)
(* user_id.  company_id, the other date columns, notification, device and    *)
(* verification_code are written by the handlers but never read by any of    *)
(* them, and are left out.                                                    *)
(***************************************************************************)
EXTENDS Integers, FiniteSets, Sequences, TLC

\* ------------------------------------------------------------------ bounds
\* user_id values the store hands out: 1..MaxUsers
MaxUsers == 2

\* ----------------------------------------------------------- input domains
Emails == {"a@x.com", "b@x.com"}
Usernames == {"ann", "bob"}
Phones == {"+10000000000", "+10000000001"}
Passwords == {"secret1", "secret2"}
\* MobileUserBase.status: ge=0, le=5; 5 is the admin sentinel
StatusValues == {1, 5}
\* rows of acc_company, and the company ids that are not among them
acc_company == {1}
UnknownCompanies == {2}
\* the requests in flight at the same time
Workers == {"w1", "w2"}
UserIds == 1..MaxUsers

\* Python's None, for an optional request field that was not supplied
None == "None"

VARIABLES
    db,       \* the rows of mobile_users
    nextId,   \* the next value of the user_id sequence
    tokens,   \* the access tokens issued so far (held by clients, not the server)
    pc,       \* per worker: where its request stands between its checks and its commit
    req,      \* per worker: the local variables of its request
    resp,     \* the HTTP response produced by the last step, NoResp if it produced none
    lastPlain,    \* history: per live user_id, the plaintext password last set for it
    now,      \* the clock: datetime.now(timezone.utc) in whole seconds
    date_login    \* per user_id, the date_login column of its row; {} is NULL

vars == <<db, nextId, tokens, pc, req, resp, lastPlain, now, date_login>>

\* ---------------------------------------------------------------- responses
\* op: the endpoint; code, detail: the HTTP status and the detail string;
\* errors: the keys of a validation error's "errors" dictionary; body: the
\* serialised accounts; token: the access token of a login; exc: the class of
\* the exception the handler ended with ("" when it returned).
Response(op, code, detail, errors, body, token, exc) ==
    [op |-> op, code |-> code, detail |-> detail, errors |-> errors,
     body |-> body, token |-> token, exc |-> exc]

HTTPException(op, code, detail) == Response(op, code, detail, {}, {}, {}, "HTTPException")

NoResp == Response("none", 0, "", {}, {}, {}, "")
NoReq == [kind |-> "none"]

\* FastAPI's answer to an exception no handler catches
InternalServerError(op, exc) ==
    Response(op, 500, "Internal Server Error", {}, {}, {}, exc)

\* ------------------------------------------------------------ bcrypt context
\* The digest of a plaintext: a tagged value that is never the plaintext.
\* The per-call salt is not modelled: no handler compares two digests.
bcrypt_hash(secret) == <<"$2b$", secret>>

bcrypt_verify(secret, digest) == digest = bcrypt_hash(secret)

\* --------------------------------------------------------------- the store
\* Query.first(): one row of the result, None ({}) when it is empty
first(rows) == IF rows = {} THEN {} ELSE {CHOOSE r \in rows : TRUE}

\* mobile_users without its unique constraints
unique_violation_off(d, row) == FALSE

\* mobile_users with email declared without unique=True
unique_violation_no_email(d, row) ==
    \E r \in d : /\ r.user_id # row.user_id
                 /\ \/ r.username = row.username
                    \/ r.phone_number = row.phone_number

\* The unique=True columns of mobile_users: would `row` violate one of them
\* against the other rows of d?
unique_violation(d, row) ==
    \E r \in d : /\ r.user_id # row.user_id
                 /\ \/ r.email = row.email
                    \/ r.username = row.username
                    \/ r.phone_number = row.phone_number

\* The fields MobileUserResponse declares, read off a row (from_attributes).
\* company_id, date_expiration, notification and device are declared too but
\* are not columns of the modelled row; user_id is not declared.
MobileUserResponse(row) ==
    [email |-> row.email, username |-> row.username, status |-> row.status,
     phone_number |-> row.phone_number, password |-> row.password]

\* validate_user_unique_fields with the exclude_user_id filters left out
validate_no_exclude(d, email, username, phone_number, exclude_user_id) ==
    {f \in {"email"} : email # None /\ \E r \in d : r.email = email}
    \cup {f \in {"username"} : username # None /\ \E r \in d : r.username = username}
    \cup {f \in {"phone_number"} :
             phone_number # None /\ \E r \in d : r.phone_number = phone_number}

\* ------------------------------------------------- validate_user_unique_fields
\* The conflicts dictionary's keys; the function raises HTTP 400 when it is
\* not empty.  A field that is None is not checked; exclude_user_id filters
\* only when it is truthy; None and 0 are both falsy and both written 0 here.
validate_user_unique_fields(d, email, username, phone_number, exclude_user_id) ==
    LET excl(rows) == IF exclude_user_id # 0
                      THEN {r \in rows : r.user_id # exclude_user_id}
                      ELSE rows
        c1 == IF email # None /\ first(excl({r \in d : r.email = email})) # {}
              THEN {"email"} ELSE {}
        c2 == IF username # None /\ first(excl({r \in d : r.username = username})) # {}
              THEN c1 \cup {"username"} ELSE c1
        c3 == IF phone_number # None
                 /\ first(excl({r \in d : r.phone_number = phone_number})) # {}
              THEN c2 \cup {"phone_number"} ELSE c2
    IN c3

ValidationErrors(op, conflicts) ==
    Response(op, 400, "Validation errors", conflicts, {}, {}, "HTTPException")

\* ------------------------------------------------------------------- tokens
SECRET_KEY == "OmniVenAPISecretKey123!@#"
ACCESS_TOKEN_EXPIRE_DAYS == 365

\* timedelta(days=ACCESS_TOKEN_EXPIRE_DAYS), in seconds
ValidityPeriod == ACCESS_TOKEN_EXPIRE_DAYS * 86400

\* The HS256 signature of the claims sub, id and exp under `key`: a tagged
\* value that is equal for equal claims and equal keys only.
HS256(key, sub, id, exp) == <<"HS256", key, sub, id, exp>>

\* jwt.encode: the claims and their signature
jwt_encode(claims, key) ==
    [sub |-> claims.sub, id |-> claims.id, exp |-> claims.exp,
     sig |-> HS256(key, claims.sub, claims.id, claims.exp)]

\* jwt.decode without the signature check (options verify_signature off)
jwt_decode_unverified(token, key, t) ==
    IF token.exp < t
    THEN [error |-> "ExpiredSignatureError", sub |-> "", id |-> 0]
    ELSE [error |-> "", sub |-> token.sub, id |-> token.id]

\* jwt.decode: the signature is verified first, then the exp claim against
\* the clock t (the token is expired when exp < t); both failures are
\* JWTErrors.  The payload's sub and id are "" and 0 when the claim is absent.
jwt_decode(token, key, t) ==
    IF token.sig # HS256(key, token.sub, token.id, token.exp)
    THEN [error |-> "JWTError", sub |-> "", id |-> 0]
    ELSE IF token.exp < t
    THEN [error |-> "ExpiredSignatureError", sub |-> "", id |-> 0]
    ELSE [error |-> "", sub |-> token.sub, id |-> token.id]

\* A JWT with the claims sub, id and exp, signed with SECRET_KEY
create_access_token(username, user_id) ==
    jwt_encode([sub |-> username, id |-> user_id, exp |-> now + ValidityPeriod],
               SECRET_KEY)

\* A token no login issued: it is signed with another key.
ForgedToken == jwt_encode([sub |-> "ann", id |-> 1, exp |-> ValidityPeriod], "guess")

PresentedTokens == tokens \cup {ForgedToken}

\* get_current_user refusing a token whose sub is no longer the username of
\* the account
get_current_user_checks_sub(d, token) ==
    LET payload == jwt_decode(token, SECRET_KEY, now)
    IN IF payload.error # ""
       THEN [raised |-> {HTTPException("auth", 401, "Token dogrulanamadi")}, user |-> {}]
       ELSE IF payload.sub = "" \/ payload.id = 0
       THEN [raised |-> {HTTPException("auth", 401, "Gecersiz token")}, user |-> {}]
       ELSE IF \E r \in d : r.user_id = payload.id /\ r.username # payload.sub
       THEN [raised |-> {HTTPException("auth", 401, "Token dogrulanamadi")}, user |-> {}]
       ELSE [raised |-> {}, user |-> first({r \in d : r.user_id = payload.id})]

\* auth.get_current_user: raises 401 when jwt.decode raises or a claim is
\* missing; otherwise returns the row with the token's id, or None ({})
\* when there is none.
get_current_user(d, token) ==
    LET payload == jwt_decode(token, SECRET_KEY, now)
    IN IF payload.error # ""
       THEN [raised |-> {HTTPException("auth", 401, "Token dogrulanamadi")}, user |-> {}]
       ELSE IF payload.sub = "" \/ payload.id = 0
       THEN [raised |-> {HTTPException("auth", 401, "Gecersiz token")}, user |-> {}]
       ELSE [raised |-> {}, user |-> first({r \in d : r.user_id = payload.id})]

\* ------------------------------------------------------- authentication.py
\* get_current_user of the /authentication router, which user.py does not
\* import: an account that is gone is a 401 too.
authentication_get_current_user(d, token) ==
    LET payload == jwt_decode(token, SECRET_KEY, now)
        user == first({r \in d : r.user_id = payload.id})
    IN IF payload.error # ""
       THEN [raised |-> {HTTPException("auth", 401, "Could not validate credentials")},
             user |-> {}]
       ELSE IF payload.sub = "" \/ payload.id = 0
       THEN [raised |-> {HTTPException("auth", 401, "Invalid authentication credentials")},
             user |-> {}]
       ELSE IF user = {}
       THEN [raised |-> {HTTPException("auth", 401, "User not found")}, user |-> {}]
       ELSE [raised |-> {}, user |-> user]

\* login_for_access_token answering an unknown username with a 404
login_reveals_unknown_user(d, username, password) ==
    LET user == {r \in d : r.username = username}
        ok == {r \in user : r.password = bcrypt_hash(password)}
    IN IF user = {} THEN HTTPException("Login", 404, "User not found")
       ELSE IF ok = {} THEN HTTPException("Login", 401, "Kullanici adi veya sifre hatali")
       ELSE LET u == CHOOSE r \in ok : TRUE
            IN Response("Login", 200, "bearer", {}, {},
                        {create_access_token(u.username, u.user_id)}, "")

\* ---------------------------------------------------------------- auth.py
authenticate_user(d, username, password) ==
    LET user == first({r \in d : r.username = username})
    IN IF user = {} THEN {}
       ELSE IF ~ bcrypt_verify(password, (CHOOSE r \in user : TRUE).password) THEN {}
       ELSE user

login_for_access_token(d, username, password) ==
    LET user == authenticate_user(d, username, password)
    IN IF user = {}
       THEN HTTPException("Login", 401, "Kullanici adi veya sifre hatali")
       ELSE LET u == CHOOSE r \in user : TRUE
            IN Response("Login", 200, "bearer", {}, {},
                        {create_access_token(u.username, u.user_id)}, "")

\* ------------------------------------------------------- authentication.py
\* login_for_access_token of the /authentication router: the same
\* authenticate_user and create_access_token, another detail string.
authentication_login_for_access_token(d, username, password) ==
    LET user == authenticate_user(d, username, password)
    IN IF user = {}
       THEN HTTPException("Login", 401, "Incorrect username or password")
       ELSE LET u == CHOOSE r \in user : TRUE
            IN Response("Login", 200, "bearer", {}, {},
                        {create_access_token(u.username, u.user_id)}, "")

\* ------------------------------------------------------------- register.py
\* A request body of MobileUserCreateRequest; company_id 0 stands for None.
\* Every combination of fields without a company, and one request each with
\* an existing and with an unknown company.
CreateRequests ==
    [email : Emails, username : Usernames, password : Passwords,
     phone_number : Phones, company_id : {0}]
    \cup [email : {"a@x.com"}, username : {"ann"}, password : {"secret1"},
          phone_number : {"+10000000000"}, company_id : acc_company \cup UnknownCompanies]

\* register_user up to the uniqueness validation: the HTTPException it raises,
\* {} when it reaches the insert.
register_checks(d, user_data) ==
    LET conflicts == validate_user_unique_fields(
                         d, user_data.email, user_data.username,
                         user_data.phone_number, 0)
    IN IF user_data.company_id # 0 /\ user_data.company_id \notin acc_company
       THEN {HTTPException("Register", 400, "Invalid company ID")}
       ELSE IF conflicts # {} THEN {ValidationErrors("Register", conflicts)}
       ELSE {}

\* register_user from MobileUser(...) to the return: db.add, db.commit (the
\* INSERT, which the unique columns may reject), db.refresh; any exception
\* other than HTTPException is answered by a rollback and a 500.
register_insert(d, nid, user_data) ==
    LET new_user == [user_id |-> nid, email |-> user_data.email,
                     username |-> user_data.username,
                     password |-> bcrypt_hash(user_data.password),
                     status |-> 1, phone_number |-> user_data.phone_number]
    IN IF unique_violation(d, new_user)
       THEN [db |-> d, nextId |-> nid,
             resp |-> Response("Register", 500, "User registration failed",
                               {}, {}, {}, "IntegrityError")]
       ELSE [db |-> d \cup {new_user}, nextId |-> nid + 1,
             resp |-> Response("Register", 201, "", {},
                               {MobileUserResponse(new_user)}, {}, "")]

\* register_user run without another request in between
register_user(d, nid, user_data) ==
    LET raised == register_checks(d, user_data)
    IN IF raised # {}
       THEN [db |-> d, nextId |-> nid, resp |-> CHOOSE r \in raised : TRUE]
       ELSE register_insert(d, nid, user_data)

\* ------------------------------------------------------------------ user.py
\* A request body of update_user (MobileUserBase plus an optional password)
\* with an existing company, and one with an unknown company.
UpdateRequests ==
    [email : Emails, username : Usernames, phone_number : Phones,
     status : StatusValues, password : Passwords \cup {None},
     company_id : acc_company]
    \cup [email : {"a@x.com"}, username : {"ann"}, phone_number : {"+10000000000"},
          status : {1}, password : {None}, company_id : UnknownCompanies]

\* get_all_users without the admin test (as in user_copy.py)
get_all_users_unprotected(d, current_user) ==
    Response("ListAll", 200, "", {}, {MobileUserResponse(r) : r \in d}, {}, "")

\* get_all_users
get_all_users(d, current_user) ==
    IF current_user = {} THEN InternalServerError("ListAll", "AttributeError")
    ELSE IF (CHOOSE c \in current_user : TRUE).status # 5
    THEN HTTPException("ListAll", 403, "Only admin users can access this endpoint")
    ELSE Response("ListAll", 200, "", {}, {MobileUserResponse(r) : r \in d}, {}, "")

\* get_user_by_id
get_user_by_id(d, current_user, user_id) ==
    LET user == first({r \in d : r.user_id = user_id})
    IN IF user = {} THEN HTTPException("GetById", 404, "User not found")
       ELSE IF current_user = {} THEN InternalServerError("GetById", "AttributeError")
       ELSE LET c == CHOOSE c \in current_user : TRUE
            IN IF c.status # 5 /\ c.user_id # user_id
               THEN HTTPException("GetById", 403, "You can only view your own profile")
               ELSE Response("GetById", 200, "", {},
                             {MobileUserResponse(r) : r \in user}, {}, "")

\* The authorisation test of update_user and delete_user:
\*   current_user and current_user.status != 5 and current_user.user_id != user_id
not_owner_or_admin(current_user, user_id) ==
    /\ current_user # {}
    /\ \A c \in current_user : c.status # 5 /\ c.user_id # user_id

\* update_user up to the uniqueness validation: the HTTPException it raises,
\* {} when it reaches the assignments.
update_checks(d, current_user, user_id, user_data) ==
    LET user == first({r \in d : r.user_id = user_id})
        conflicts == validate_user_unique_fields(
                         d, user_data.email, user_data.username,
                         user_data.phone_number, user_id)
    IN IF not_owner_or_admin(current_user, user_id)
       THEN {HTTPException("Update", 403, "You can only update your own profile")}
       ELSE IF user_data.company_id \notin acc_company
       THEN {HTTPException("Update", 400, "Company with ID does not exist")}
       ELSE IF user = {} THEN {HTTPException("Update", 404, "User not found")}
       ELSE IF conflicts # {} THEN {ValidationErrors("Update", conflicts)}
       ELSE {}

\* update_user storing the supplied password without hashing it
update_changes_plain_password(user, user_data) ==
    LET ch(old, new) == IF old = new THEN {} ELSE {new}
    IN [email |-> ch(user.email, user_data.email),
        username |-> ch(user.username, user_data.username),
        status |-> ch(user.status, user_data.status),
        phone_number |-> ch(user.phone_number, user_data.phone_number),
        password |-> IF user_data.password # None /\ user_data.password # ""
                     THEN {<<"plain", user_data.password>>} ELSE {}]

\* The attributes update_user's assignments leave changed on the loaded row
\* `user`: the session writes exactly these columns at commit.  A supplied
\* password is always one of them (its digest is salted anew).
\* Each column is {} when unchanged and {value} when changed.
update_changes(user, user_data) ==
    LET ch(old, new) == IF old = new THEN {} ELSE {new}
    IN [email |-> ch(user.email, user_data.email),
        username |-> ch(user.username, user_data.username),
        status |-> ch(user.status, user_data.status),
        phone_number |-> ch(user.phone_number, user_data.phone_number),
        password |-> IF user_data.password # None /\ user_data.password # ""
                     THEN {bcrypt_hash(user_data.password)} ELSE {}]

\* db.commit and db.refresh of update_user: the UPDATE of the changed columns
\* of row user_id.  It raises when the row is gone or a unique column
\* rejects the new values; update_user catches nothing.  `updated` tells
\* whether an UPDATE was carried out: none is issued when no column changed.
update_commit(d, user_id, changes) ==
    LET row == first({r \in d : r.user_id = user_id})
        set(old, new) == IF new = {} THEN old ELSE CHOOSE v \in new : TRUE
        old == CHOOSE r \in row : TRUE
        updated == [user_id |-> user_id,
                    email |-> set(old.email, changes.email),
                    username |-> set(old.username, changes.username),
                    status |-> set(old.status, changes.status),
                    phone_number |-> set(old.phone_number, changes.phone_number),
                    password |-> set(old.password, changes.password)]
    IN IF row = {}
       THEN [db |-> d, updated |-> FALSE,
             resp |-> InternalServerError("Update", "StaleDataError")]
       ELSE IF unique_violation(d, updated)
       THEN [db |-> d, updated |-> FALSE,
             resp |-> InternalServerError("Update", "IntegrityError")]
       ELSE [db |-> (d \ row) \cup {updated},
             updated |-> \E col \in DOMAIN changes : changes[col] # {},
             resp |-> Response("Update", 200, "", {},
                               {MobileUserResponse(updated)}, {}, "")]

\* update_user run without another request in between
update_user(d, current_user, user_id, user_data) ==
    LET raised == update_checks(d, current_user, user_id, user_data)
        user == CHOOSE r \in d : r.user_id = user_id
    IN IF raised # {}
       THEN [db |-> d, updated |-> FALSE, resp |-> CHOOSE r \in raised : TRUE]
       ELSE update_commit(d, user_id, update_changes(user, user_data))

\* delete_user with the delete ahead of the authorisation test
delete_user_deletes_first(d, current_user, user_id) ==
    LET user == {r \in d : r.user_id = user_id}
    IN IF user = {}
       THEN [db |-> d, resp |-> HTTPException("Delete", 404, "User not found")]
       ELSE IF current_user # {}
               /\ \A c \in current_user : c.status # 5 /\ c.user_id # user_id
       THEN [db |-> d \ user,
             resp |-> HTTPException("Delete", 403, "You can only delete your own account")]
       ELSE [db |-> d \ user, resp |-> Response("Delete", 204, "", {}, {}, {}, "")]

\* delete_user
delete_user(d, current_user, user_id) ==
    LET user == first({r \in d : r.user_id = user_id})
    IN IF not_owner_or_admin(current_user, user_id)
       THEN [db |-> d,
             resp |-> HTTPException("Delete", 403, "You can only delete your own account")]
       ELSE IF user = {}
       THEN [db |-> d, resp |-> HTTPException("Delete", 404, "User not found")]
       ELSE [db |-> d \ user, resp |-> Response("Delete", 204, "", {}, {}, {}, "")]

\* ------------------------------------------------ the steps of a request
\* The steps a protected request goes through, in the order of the handler's
\* statements: "verified" (jwt.decode returned), "resolved" (the caller's row
\* was looked up), "access_checked" (the handler's test of the caller was
\* evaluated and did not raise), "target_read" (the query for the row
\* user_id), "executed" (the row was returned, written or deleted),
\* "rejected" (an HTTPException ended the request), "error" (another
\* exception ended it).
resolver_steps(d, token) ==
    IF get_current_user(d, token).raised # {} THEN <<"rejected">>
    ELSE <<"verified", "resolved">>

get_user_by_id_steps(d, token, user_id) ==
    LET current_user == get_current_user(d, token).user
        user == first({r \in d : r.user_id = user_id})
    IN IF get_current_user(d, token).raised # {} THEN resolver_steps(d, token)
       ELSE resolver_steps(d, token) \o <<"target_read">> \o
            (IF user = {} THEN <<"rejected">>
             ELSE IF current_user = {} THEN <<"error">>
             ELSE IF \E c \in current_user : c.status # 5 /\ c.user_id # user_id
             THEN <<"rejected">>
             ELSE <<"access_checked", "executed">>)

update_user_steps(d, token, user_id, user_data) ==
    LET current_user == get_current_user(d, token).user
        user == first({r \in d : r.user_id = user_id})
        r == update_user(d, current_user, user_id, user_data)
    IN IF get_current_user(d, token).raised # {} THEN resolver_steps(d, token)
       ELSE resolver_steps(d, token) \o
            (IF not_owner_or_admin(current_user, user_id) THEN <<"rejected">>
             ELSE <<"access_checked">> \o
                  (IF user_data.company_id \notin acc_company THEN <<"rejected">>
                   ELSE <<"target_read">> \o
                        (IF r.resp.exc = "HTTPException" THEN <<"rejected">>
                         ELSE IF r.resp.code = 200 THEN <<"executed">>
                         ELSE <<"error">>)))

delete_user_steps(d, token, user_id) ==
    LET current_user == get_current_user(d, token).user
        user == first({r \in d : r.user_id = user_id})
    IN IF get_current_user(d, token).raised # {} THEN resolver_steps(d, token)
       ELSE resolver_steps(d, token) \o
            (IF not_owner_or_admin(current_user, user_id) THEN <<"rejected">>
             ELSE <<"access_checked", "target_read">> \o
                  (IF user = {} THEN <<"rejected">> ELSE <<"executed">>))

\* Depends(get_current_user) in front of a handler of user.py: the 401 it
\* raises is the response, with the endpoint's name on it.
Rejected(op, cu) == [(CHOOSE r \in cu.raised : TRUE) EXCEPT !.op = op]

\* ----------------------------------------------------------------- actions
Init ==
    /\ db = {}
    /\ nextId = 1
    /\ tokens = {}
    /\ pc = [w \in Workers |-> "idle"]
    /\ req = [w \in Workers |-> NoReq]
    /\ resp = NoResp
    /\ lastPlain = [i \in UserIds |-> None]
    /\ now = 0
    /\ date_login = [i \in UserIds |-> {}]

\* user_id values still to be handed out, counting the inserts in flight
IdsLeft == MaxUsers + 1 - nextId - Cardinality({w \in Workers : pc[w] = "register_insert"})

\* POST /user/register/
Register(user_data) ==
    /\ IdsLeft > 0
    /\ \E r \in {register_user(db, nextId, user_data)} :
          /\ db' = r.db /\ nextId' = r.nextId /\ resp' = r.resp
          /\ lastPlain' = IF r.resp.code = 201
                          THEN [lastPlain EXCEPT ![nextId] = user_data.password]
                          ELSE lastPlain
    /\ UNCHANGED <<tokens, pc, req, now, date_login>>

\* POST /auth/token
Login(username, password) ==
    /\ resp' = login_for_access_token(db, username, password)
    /\ tokens' = tokens \cup resp'.token
    /\ UNCHANGED <<db, nextId, pc, req, lastPlain, now, date_login>>

\* GET /user/
ListAll(token) ==
    /\ \E cu \in {get_current_user(db, token)} :
          resp' = IF cu.raised # {} THEN Rejected("ListAll", cu)
                  ELSE get_all_users(db, cu.user)
    /\ UNCHANGED <<db, nextId, tokens, pc, req, lastPlain, now, date_login>>

\* GET /user/{user_id}
GetById(token, user_id) ==
    /\ \E cu \in {get_current_user(db, token)} :
          resp' = IF cu.raised # {} THEN Rejected("GetById", cu)
                  ELSE get_user_by_id(db, cu.user, user_id)
    /\ UNCHANGED <<db, nextId, tokens, pc, req, lastPlain, now, date_login>>

\* date_login = Column(DateTime, onupdate=func.now()): the column takes the
\* clock's value whenever an UPDATE of the row is carried out.
onupdate(updated, user_id) ==
    IF updated THEN [date_login EXCEPT ![user_id] = {now}] ELSE date_login

\* The history variable after an update of user_id answered by r
PlainAfterUpdate(r, user_id, password) ==
    IF r.code = 200 /\ password # None
    THEN [lastPlain EXCEPT ![user_id] = password] ELSE lastPlain

\* PUT /user/{user_id}
Update(token, user_id, user_data) ==
    /\ \E cu \in {get_current_user(db, token)} :
          IF cu.raised # {}
          THEN /\ db' = db /\ resp' = Rejected("Update", cu)
               /\ lastPlain' = lastPlain /\ date_login' = date_login
          ELSE \E r \in {update_user(db, cu.user, user_id, user_data)} :
                  /\ db' = r.db /\ resp' = r.resp
                  /\ lastPlain' = PlainAfterUpdate(r.resp, user_id, user_data.password)
                  /\ date_login' = onupdate(r.updated, user_id)
    /\ UNCHANGED <<nextId, tokens, pc, req, now>>

\* DELETE /user/{user_id}
Delete(token, user_id) ==
    /\ \E cu \in {get_current_user(db, token)} :
          IF cu.raised # {}
          THEN /\ db' = db /\ resp' = Rejected("Delete", cu)
               /\ lastPlain' = lastPlain /\ date_login' = date_login
          ELSE \E r \in {delete_user(db, cu.user, user_id)} :
                  /\ db' = r.db /\ resp' = r.resp
                  /\ lastPlain' = IF r.resp.code = 204
                                  THEN [lastPlain EXCEPT ![user_id] = None]
                                  ELSE lastPlain
                  /\ date_login' = IF r.resp.code = 204
                                   THEN [date_login EXCEPT ![user_id] = {}]
                                   ELSE date_login
    /\ UNCHANGED <<nextId, tokens, pc, req, now>>

\* The requests of the sequential specification.  Registrations: the
\* password is "secret1", every other field takes every value.  Updates: no
\* password, every email and status, and the username and the phone number
\* changed together.
StoreCreateRequests == {c \in CreateRequests : c.password = "secret1"}
StoreUpdateRequests ==
    {u \in UpdateRequests :
        /\ u.password = None
        /\ (u.username = "ann") <=> (u.phone_number = "+10000000000")}

\* Every request handled from its first line to its response before the
\* next one starts.
Next ==
    \/ \E user_data \in StoreCreateRequests : Register(user_data)
    \/ \E username \in Usernames, password \in Passwords : Login(username, password)
    \/ \E token \in PresentedTokens : ListAll(token)
    \/ \E token \in PresentedTokens, user_id \in UserIds : GetById(token, user_id)
    \/ \E token \in PresentedTokens, user_id \in UserIds,
          user_data \in StoreUpdateRequests : Update(token, user_id, user_data)
    \/ \E token \in PresentedTokens, user_id \in UserIds : Delete(token, user_id)

Spec == Init /\ [][Next]_vars

\* ------------------------------------------------ requests that set passwords
\* An email, a username and a phone number that belong together
Profile(r) ==
    \/ r.email = "a@x.com" /\ r.username = "ann" /\ r.phone_number = "+10000000000"
    \/ r.email = "b@x.com" /\ r.username = "bob" /\ r.phone_number = "+10000000001"

\* The requests of the credentials specification: every password and every
\* status, with the three unique fields of a request taken from one profile.
LoginCreateRequests == {c \in CreateRequests : c.company_id = 0 /\ Profile(c)}
LoginUpdateRequests == {u \in UpdateRequests : u.company_id \in acc_company /\ Profile(u)}

\* The requests that create, change and use credentials, each handled from
\* its first line to its response before the next one starts.
NextLogin ==
    \/ \E user_data \in LoginCreateRequests : Register(user_data)
    \/ \E username \in Usernames, password \in Passwords : Login(username, password)
    \/ \E token \in PresentedTokens, user_id \in UserIds,
          user_data \in LoginUpdateRequests : Update(token, user_id, user_data)
    \/ \E token \in PresentedTokens, user_id \in UserIds : Delete(token, user_id)

SpecLogin == Init /\ [][NextLogin]_vars

\* ------------------------------------------------- requests as time passes
\* The instants the clock is read at after the start: the expiry of a token
\* issued at the start, and one second after it.
Instants == {ValidityPeriod, ValidityPeriod + 1}

\* Time passes between two requests
Tick(t) ==
    /\ t > now
    /\ now' = t
    /\ UNCHANGED <<db, nextId, tokens, pc, req, resp, lastPlain, date_login>>

\* The requests of the clock specification: registrations with one password;
\* updates that supply a new username, status and password at once.
ClockCreateRequests == {c \in LoginCreateRequests : c.password = "secret1"}
ClockUpdateRequests ==
    {u \in LoginUpdateRequests : u.status = 5 /\ u.password = "secret2"}

\* Requests handled one after the other while the clock advances
NextClock ==
    \/ \E user_data \in ClockCreateRequests : Register(user_data)
    \/ \E username \in Usernames : Login(username, "secret1")
    \/ \E t \in Instants : Tick(t)
    \/ \E token \in PresentedTokens, user_id \in UserIds : GetById(token, user_id)
    \/ \E token \in PresentedTokens, user_id \in UserIds,
          user_data \in ClockUpdateRequests : Update(token, user_id, user_data)

SpecClock == Init /\ [][NextClock]_vars

\* ------------------------------------------------- requests that interleave
\* The requests of the interleaving specification, all with one password and
\* the regular status.  Registrations: every email, and the username and the
\* phone number taken together.  Updates: either email, and one username and
\* phone number, which every update claims.
RaceCreateRequests ==
    {c \in CreateRequests :
        /\ c.password = "secret1" /\ c.company_id = 0
        /\ (c.username = "ann") <=> (c.phone_number = "+10000000000")}
RaceUpdateRequests ==
    {u \in UpdateRequests :
        /\ u.status = 1 /\ u.password = None /\ u.company_id \in acc_company
        /\ u.username = "ann" /\ u.phone_number = "+10000000000"}

\* register_user, lines up to validate_user_unique_fields
RegisterCheck(w, user_data) ==
    /\ pc[w] = "idle"
    /\ IdsLeft > 0
    /\ LET raised == register_checks(db, user_data)
       IN IF raised # {}
          THEN /\ resp' = CHOOSE r \in raised : TRUE
               /\ UNCHANGED <<pc, req>>
          ELSE /\ resp' = NoResp
               /\ pc' = [pc EXCEPT ![w] = "register_insert"]
               /\ req' = [req EXCEPT ![w] = [kind |-> "register", user_data |-> user_data]]
    /\ UNCHANGED <<db, nextId, tokens, lastPlain, now, date_login>>

\* register_user, from MobileUser(...) to the response
RegisterInsert(w) ==
    /\ pc[w] = "register_insert"
    /\ \E r \in {register_insert(db, nextId, req[w].user_data)} :
          /\ db' = r.db /\ nextId' = r.nextId /\ resp' = r.resp
          /\ lastPlain' = IF r.resp.code = 201
                          THEN [lastPlain EXCEPT ![nextId] = req[w].user_data.password]
                          ELSE lastPlain
    /\ pc' = [pc EXCEPT ![w] = "idle"]
    /\ req' = [req EXCEPT ![w] = NoReq]
    /\ UNCHANGED <<tokens, now, date_login>>

\* update_user, lines up to validate_user_unique_fields and the assignments
UpdateCheck(w, token, user_id, user_data) ==
    /\ pc[w] = "idle"
    /\ \E cu \in {get_current_user(db, token)} :
          IF cu.raised # {}
          THEN resp' = Rejected("Update", cu) /\ UNCHANGED <<pc, req>>
          ELSE \E raised \in {update_checks(db, cu.user, user_id, user_data)} :
                  IF raised # {}
                  THEN /\ resp' = CHOOSE r \in raised : TRUE
                       /\ UNCHANGED <<pc, req>>
                  ELSE /\ resp' = NoResp
                       /\ pc' = [pc EXCEPT ![w] = "update_commit"]
                       /\ req' = [req EXCEPT ![w] =
                                     [kind |-> "update", user_id |-> user_id,
                                      password |-> user_data.password,
                                      changes |-> update_changes(
                                          CHOOSE r \in db : r.user_id = user_id,
                                          user_data)]]
    /\ UNCHANGED <<db, nextId, tokens, lastPlain, now, date_login>>

\* update_user, db.commit to the response
UpdateCommit(w) ==
    /\ pc[w] = "update_commit"
    /\ \E r \in {update_commit(db, req[w].user_id, req[w].changes)} :
          /\ db' = r.db /\ resp' = r.resp
          /\ lastPlain' = PlainAfterUpdate(r.resp, req[w].user_id, req[w].password)
          /\ date_login' = onupdate(r.updated, req[w].user_id)
    /\ pc' = [pc EXCEPT ![w] = "idle"]
    /\ req' = [req EXCEPT ![w] = NoReq]
    /\ UNCHANGED <<nextId, tokens, now>>

\* Requests to register and to update interleave between their checks and
\* their commit; logins and deletes run between them.
NextRace ==
    \/ \E w \in Workers, user_data \in RaceCreateRequests : RegisterCheck(w, user_data)
    \/ \E w \in Workers : RegisterInsert(w)
    \/ \E w \in Workers, token \in tokens, user_id \in UserIds,
          user_data \in RaceUpdateRequests : UpdateCheck(w, token, user_id, user_data)
    \/ \E w \in Workers : UpdateCommit(w)
    \/ \E username \in Usernames : Login(username, "secret1")
    \/ \E token \in tokens, user_id \in UserIds : Delete(token, user_id)

SpecRace == Init /\ [][NextRace]_vars

\* ================================================================== claims
\* The callers a token issued by a login resolves to, as user.py receives them
Resolved(token) == get_current_user(db, token).user

\* requireOwnerOrAdmin of the specification
OwnerOrAdmin(c, user_id) == c.user_id = user_id \/ c.status = 5

\* The outcomes that are Forbidden, ValidationConflict or NotFound
Refusal(r) == r.code \in {403, 404} \/ (r.code = 400 /\ r.errors # {})

\* C1: for every caller resolved from a token and every target id, GetById,
\* Update and Delete end in Forbidden exactly when the caller is neither the
\* target nor an administrator (status 5).
C1_ForbiddenIffNotOwnerOrAdmin ==
    \A token \in tokens, user_id \in UserIds :
        \A c \in Resolved(token) :
            /\ get_user_by_id(db, {c}, user_id).code = 403 <=> ~ OwnerOrAdmin(c, user_id)
            /\ delete_user(db, {c}, user_id).resp.code = 403 <=> ~ OwnerOrAdmin(c, user_id)
            /\ \A user_data \in UpdateRequests :
                  update_user(db, {c}, user_id, user_data).resp.code = 403
                      <=> ~ OwnerOrAdmin(c, user_id)

\* C2: a protected operation called with a correctly signed token whose
\* account is no longer in the store ends in Unauthorized and leaves the store
\* as it was.
C2_OrphanedTokenUnauthorized ==
    \A token \in tokens, user_id \in UserIds :
        (get_current_user(db, token).raised = {} /\ Resolved(token) = {}) =>
            /\ get_all_users(db, {}).code = 401
            /\ get_user_by_id(db, {}, user_id).code = 401
            /\ delete_user(db, {}, user_id).resp.code = 401
            /\ delete_user(db, {}, user_id).db = db
            /\ \A user_data \in UpdateRequests :
                  /\ update_user(db, {}, user_id, user_data).resp.code = 401
                  /\ update_user(db, {}, user_id, user_data).db = db

\* C3: a step in which Register, Update or Delete answers Forbidden,
\* ValidationConflict or NotFound leaves every row of the store, and the id
\* sequence, as they were.
C3_RefusalWritesNothing ==
    [][(resp'.op \in {"Register", "Update", "Delete"} /\ Refusal(resp'))
          => (db' = db /\ nextId' = nextId /\ date_login' = date_login)]_vars

C3_Witness ==
    /\ resp.op = "Update" /\ resp.code = 400 /\ resp.errors # {}
    /\ Cardinality(db) = 2

\* C4: no two distinct rows of the store share an email, a username, a phone
\* number or a user_id, whatever the interleaving of the requests.
C4_UniqueFields ==
    \A r1, r2 \in db :
        r1 # r2 => /\ r1.user_id # r2.user_id
                   /\ r1.email # r2.email
                   /\ r1.username # r2.username
                   /\ r1.phone_number # r2.phone_number

\* An update whose checks passed was rejected at commit by a unique column,
\* with two accounts in the store.
C4_Witness ==
    /\ resp.op = "Update" /\ resp.exc = "IntegrityError"
    /\ Cardinality(db) = 2

\* The registrations in flight past their checks
Inserting(w) == pc[w] = "register_insert"

C6_ListAllAdminOnly ==
    \A token \in tokens :
        \A row \in Resolved(token) :
            \A c \in {row} \cup {[row EXCEPT !.status = st] : st \in 0..5} :
                LET r == get_all_users(db, {c})
                IN IF c.status = 5
                   THEN r.code = 200 /\ r.body = {MobileUserResponse(u) : u \in db}
                   ELSE r.code = 403 /\ r.body = {}

C6_Witness ==
    /\ resp.op = "ListAll" /\ resp.code = 403
    /\ Cardinality(db) = 2

\* C7: the uniqueness check reports exactly the supplied fields whose value
\* some row with another id than the excluded one holds; a row checked
\* against its own values with its own id excluded reports nothing.
C7_CheckUniqueExact ==
    /\ \A email \in Emails \cup {None}, username \in Usernames \cup {None},
          phone_number \in Phones \cup {None}, exclude_user_id \in 0..MaxUsers :
          validate_user_unique_fields(db, email, username, phone_number, exclude_user_id)
            = {f \in {"email", "username", "phone_number"} :
                 \E r \in db :
                    /\ r.user_id # exclude_user_id
                    /\ \/ f = "email" /\ email # None /\ r.email = email
                       \/ f = "username" /\ username # None /\ r.username = username
                       \/ f = "phone_number" /\ phone_number # None
                            /\ r.phone_number = phone_number}
    /\ \A r \in db :
          validate_user_unique_fields(db, r.email, r.username, r.phone_number, r.user_id) = {}

\* An update was refused for just the fields another account holds.
C7_Witness ==
    /\ resp.op = "Update" /\ resp.code = 400
    /\ resp.errors = {"email", "phone_number"}

\* C8: no response carries a password field, and the account a successful
\* Register returns carries its generated id.
C8_NoPasswordInResponses ==
    /\ \A account \in resp.body : "password" \notin DOMAIN account
    /\ (resp.op = "Register" /\ resp.code = 201) =>
          \A account \in resp.body : "user_id" \in DOMAIN account

\* C9: Login returns a token exactly for a username of a live account
\* together with the plaintext last set for that account.
C9_LoginIffLastPassword ==
    \A username \in Usernames, password \in Passwords :
        LET r == login_for_access_token(db, username, password)
            account == {u \in db : u.username = username /\ lastPlain[u.user_id] = password}
        IN /\ r.code = 200 <=> account # {}
           /\ r.token = {create_access_token(u.username, u.user_id) : u \in account}

\* A login succeeded for an account whose password an update has changed.
C9_Witness ==
    /\ resp.op = "Login" /\ resp.code = 200
    /\ \E u \in db : /\ resp.token = {create_access_token(u.username, u.user_id)}
                     /\ u.status = 5 /\ lastPlain[u.user_id] = "secret2"
                     /\ u.password # bcrypt_hash("secret1")

\* C10: every failed login gets the same response, whether or not the
\* username exists, on the /auth router and on the /authentication router.
C10_LoginFailureUniform ==
    \A u1, u2 \in Usernames, p1, p2 \in Passwords :
        LET a1 == login_for_access_token(db, u1, p1)
            a2 == login_for_access_token(db, u2, p2)
            b1 == authentication_login_for_access_token(db, u1, p1)
            b2 == authentication_login_for_access_token(db, u2, p2)
        IN /\ (a1.token = {} /\ a2.token = {}) => a1 = a2
           /\ (b1.token = {} /\ b2.token = {}) => b1 = b2
           /\ a1.token = {} <=> a1.code # 200

\* A login failed while one username exists and the other does not.
C10_Witness ==
    /\ resp.op = "Login" /\ resp.code = 401
    /\ Cardinality({u.username : u \in db}) = 1

\* ------------------------------------------------------------ token claims
\* A token with one claim or the signature altered after it was signed
Tampered(token) ==
    {[token EXCEPT !.sub = u] : u \in Usernames \ {token.sub}}
    \cup {[token EXCEPT !.id = i] : i \in UserIds \ {token.id}}
    \cup {[token EXCEPT !.exp = token.exp + ValidityPeriod]}
    \cup {[token EXCEPT !.sig = HS256("guess", token.sub, token.id, token.exp)]}

\* Tokens signed with SECRET_KEY whose payload lacks sub or id
MissingClaims ==
    {jwt_encode([sub |-> "", id |-> i, exp |-> now + ValidityPeriod], SECRET_KEY) :
        i \in UserIds}
    \cup {jwt_encode([sub |-> u, id |-> 0, exp |-> now + ValidityPeriod], SECRET_KEY) :
              u \in Usernames}

\* Every token a request can carry: issued (expired or not), altered, signed
\* with another key, or lacking a claim
AnyToken ==
    tokens \cup UNION {Tampered(token) : token \in tokens}
           \cup {ForgedToken} \cup MissingClaims

\* C11: every token the Session Resolver rejects - expired, wrongly signed,
\* or lacking a claim - is rejected with one and the same response, on the
\* resolver user.py imports and on the one of the /authentication router.
C11_TokenFailureUniform ==
    \A t1, t2 \in AnyToken :
        LET a1 == get_current_user(db, t1).raised
            a2 == get_current_user(db, t2).raised
            b1 == authentication_get_current_user(db, t1).raised
            b2 == authentication_get_current_user(db, t2).raised
        IN /\ (a1 # {} /\ a2 # {}) => a1 = a2
           /\ (b1 # {} /\ b2 # {}) => b1 = b2

\* C12: jwt.decode accepts a token exactly when it is an unaltered token that
\* a login issued and the clock has not passed its exp, which is the time of
\* issue plus 365 days; it then returns the sub and id the token was issued
\* with.  One second after exp it raises ExpiredSignatureError, and a token
\* with an altered claim or signature raises JWTError at every instant.
C12_VerifyExactlyIssuedUnexpired ==
    /\ \A u \in Usernames, i \in UserIds :
          /\ create_access_token(u, i).exp = now + ValidityPeriod
          /\ jwt_decode(create_access_token(u, i), SECRET_KEY, now)
               = [error |-> "", sub |-> u, id |-> i]
    /\ \A token \in tokens :
          /\ now <= token.exp =>
                jwt_decode(token, SECRET_KEY, now)
                  = [error |-> "", sub |-> token.sub, id |-> token.id]
          /\ now > token.exp =>
                jwt_decode(token, SECRET_KEY, now).error = "ExpiredSignatureError"
          /\ jwt_decode(token, SECRET_KEY, token.exp).error = ""
          /\ jwt_decode(token, SECRET_KEY, token.exp + 1).error = "ExpiredSignatureError"
          /\ \A altered \in Tampered(token), t \in {now, token.exp, token.exp + 1} :
                jwt_decode(altered, SECRET_KEY, t).error = "JWTError"
    /\ \A token \in AnyToken \ MissingClaims :
          jwt_decode(token, SECRET_KEY, now).error = ""
              => token \in tokens /\ now <= token.exp

\* A protected request was answered 401 one second after the expiry of a
\* token issued to an account that is still in the store.
C12_Witness ==
    /\ resp.op = "GetById" /\ resp.code = 401
    /\ \E token \in tokens :
          /\ now = token.exp + 1
          /\ \E r \in db : r.user_id = token.id

\* ----------------------------------------------------------- access claims
\* C13: for a caller whose status is not 5 and a target id other than the
\* caller's own, GetById, Update and Delete answer Forbidden, and they answer
\* the same with the target account in the store as with it taken out.
C13_ForbiddenHidesExistence ==
    \A token \in tokens, user_id \in UserIds :
        \A c \in Resolved(token) :
            (c.status # 5 /\ c.user_id # user_id) =>
                LET absent == {r \in db : r.user_id # user_id}
                IN /\ get_user_by_id(db, {c}, user_id).code = 403
                   /\ get_user_by_id(absent, {c}, user_id).code = 403
                   /\ delete_user(db, {c}, user_id).resp
                        = delete_user(absent, {c}, user_id).resp
                   /\ delete_user(db, {c}, user_id).resp.code = 403
                   /\ \A user_data \in UpdateRequests :
                         /\ update_user(db, {c}, user_id, user_data).resp
                              = update_user(absent, {c}, user_id, user_data).resp
                         /\ update_user(db, {c}, user_id, user_data).resp.code = 403

\* ------------------------------------------------------------ login claims
\* C14: a step in which Login returns a token sets the date_login of the
\* authenticated account to the clock's value, and a step in which Login
\* fails leaves every date_login as it was.
C14_LoginSetsDateLogin ==
    [][(resp'.op = "Login" /\ (resp' # resp \/ tokens' # tokens)) =>
          /\ resp'.code = 200 =>
                \A token \in resp'.token : date_login'[token.id] = {now}
          /\ resp'.code # 200 => date_login' = date_login]_vars

\* C15: every token a login issued resolves, as long as the clock has not
\* passed its exp and an account with its id is in the store, to that
\* account, whatever logins and updates of username, password or status came
\* after it.
C15_NoRevocation ==
    \A token \in tokens :
        LET account == {r \in db : r.user_id = token.id}
            cu == get_current_user(db, token)
        IN (now <= token.exp /\ account # {}) =>
               cu.raised = {} /\ cu.user = account

\* A protected request succeeded later than the start, after a second login,
\* with an unexpired token whose account has since got another username,
\* another password and status 5.
C15_Witness ==
    /\ resp.op = "GetById" /\ resp.code = 200
    /\ now > 0
    /\ Cardinality(tokens) >= 2
    /\ \A r \in db : /\ r.status = 5
                     /\ r.password # bcrypt_hash("secret1")
                     /\ \E token \in tokens : /\ token.id = r.user_id
                                              /\ token.sub # r.username
                                              /\ now <= token.exp

\* ------------------------------------------------------------- step claims
\* Every occurrence of step b in the trace tr comes after an occurrence of a
Before(tr, a, b) ==
    \A j \in DOMAIN tr : tr[j] = b => \E i \in 1..(j - 1) : tr[i] = a

\* The order verified, resolved, access checked, executed, with no read of
\* the target before the access check and no execution after a rejection
StepOrder(tr) ==
    /\ Before(tr, "verified", "resolved")
    /\ Before(tr, "resolved", "access_checked")
    /\ Before(tr, "access_checked", "target_read")
    /\ Before(tr, "access_checked", "executed")
    /\ ~ \E i, j \in DOMAIN tr : tr[i] = "rejected" /\ tr[j] = "executed"

\* C16: every GetById, Update and Delete request goes through its steps in
\* the order verified, resolved, access checked, executed: the target row is
\* not read before the access check has passed, and a rejected request does
\* not reach the executed step.
C16_StepOrder ==
    \A token \in PresentedTokens, user_id \in UserIds :
        /\ StepOrder(get_user_by_id_steps(db, token, user_id))
        /\ StepOrder(delete_user_steps(db, token, user_id))
        /\ \A user_data \in StoreUpdateRequests :
              StepOrder(update_user_steps(db, token, user_id, user_data))

\* ----------------------------------------------------------- status claims
\* C17: the store starts without accounts, so every caller is a
\* non-administrator until some account has status 5: Register creates its
\* account with status 1, and no account ever has status 5 unless a caller
\* of status 5 made it so - that is, no account ever has status 5.
C17_AdminOnlyByAdmin ==
    /\ \A user_data \in CreateRequests :
          \A r \in register_user(db, nextId, user_data).db \ db : r.status = 1
    /\ \A r \in db : r.status # 5

====
